---- MODULE Spec2Model ----
(***************************************************************************)
(* The payment ledger of bluecode: payments::create (validate, place a     *)
(* hold, insert the row) and refunds::create (one PostgreSQL transaction:  *)
(* insert the refund row, conditionally update the payment row, commit),   *)
(* run by concurrent callers against one store.                            *)
(*                                                                         *)
(* The store is PostgreSQL at READ COMMITTED: a statement sees committed    *)
(* rows and its own transaction's rows; an UPDATE takes the row's lock and  *)
(* waits for a concurrent updater of the same row, then re-evaluates its    *)
(* WHERE clause on the row as committed.  The payments table has a unique   *)
(* index on card_number (payments_card_number_index) and refunds has a      *)
(* foreign key to payments (refunds_payment_id_fkey).                       *)
(***************************************************************************)
EXTENDS Integers, Sequences, FiniteSets, TLC

\* ------------------------------------------------------------- bounds

\* Number of payments::create calls (each call's slot is also the uuid its
\* row would get: Uuid::new_v4() is fresh per call).
MaxPayCalls == 2

\* Number of refunds::create calls (each call's slot is also its refund's uuid).
MaxRefundCalls == 2

\* Number of calls of both kinds together that one run makes.
MaxCalls == 3

PayCalls == 1..MaxPayCalls

RefundCalls == 1..MaxRefundCalls

\* ------------------------------------------------------------- values

\* i32::MAX: Payment.amount, Payment.refunded_amount and Refund.amount are i32
\* (PostgreSQL integer); the store raises "integer out of range" past it.
I32Max == 2147483647

I32Min == -I32Max - 1

\* CARD_NUMBER_REGEX is ^\d{15}$
CardDigits == 15

\* \d of the regex crate is Unicode-aware: any decimal digit (Nd), of which
\* the ASCII digits and one other (ARABIC-INDIC DIGIT THREE) stand here.
Digit == {"0", "1", "2", "3", "4", "5", "6", "7", "8", "9", "U+0663"}

CardA == [i \in 1..15 |-> IF i = 1 THEN "4" ELSE "2"]

CardB == [i \in 1..15 |-> IF i = 1 THEN "5" ELSE "1"]

\* one digit short (the tests truncate a valid card by one character)
CardShort == [i \in 1..14 |-> "4"]

\* fifteen characters, one of them no digit
CardAlpha == [i \in 1..15 |-> IF i = 8 THEN "x" ELSE "4"]

\* The (amount, card_number) pairs callers pass to payments::create: each
\* kind of amount with a valid and a malformed card, a positive amount with
\* both malformed cards and with two different valid ones.
PayInputs ==
    {<<-100, CardA>>, <<-100, CardShort>>, <<0, CardA>>, <<0, CardShort>>,
     <<1205, CardShort>>, <<1205, CardAlpha>>, <<1205, CardA>>, <<1205, CardB>>}

\* A uuid that no row has (Uuid::new_v4() of the caller, or Uuid::nil()).
NoSuchId == 0

RefundAmounts == {-1, 200, 900, I32Max}

Status == {"Processing", "Approved", "Declined", "Failed"}

InvalidArgumentError == {"NegativeAmount", "ZeroAmount", "InvalidCardFormat"}

AccountServiceError ==
    {"InsufficientFunds", "InvalidAccountNumber", "ServiceUnavailable", "InternalError"}

\* What AccountService.place_hold answers: Ok(HoldRef) or Err(message).
HoldResponses ==
    {"ok", "insufficient_funds", "invalid_account_number", "service_unavailable",
     "internal_error"}

\* Result values of the two create functions.
Pending == [tag |-> "Pending", variant |-> "-", err |-> "-"]

Ok == [tag |-> "Ok", variant |-> "-", err |-> "-"]

Err(variant, err) == [tag |-> "Err", variant |-> variant, err |-> err]

\* The call did not return: an unwrap() on None or on Err aborted it.
Panic == [tag |-> "Panic", variant |-> "-", err |-> "-"]

\* ------------------------------------------------------------- state

VARIABLES
    payments,   \* committed rows of table payments
    refunds,    \* committed rows of table refunds
    pay,        \* pay[c]: the c-th payments::create call
    rtx,        \* rtx[r]: the r-th refunds::create call and its transaction
    holds       \* holds placed at the account service and never released

vars == <<payments, refunds, pay, rtx, holds>>

IdlePay ==
    [pc |-> "idle", amount |-> 0, card_number |-> <<>>, status |-> "-",
     via |-> "-", calls |-> <<>>, response |-> "-", result |-> Pending]

IdleRefund ==
    [pc |-> "idle", payment_id |-> 0, amount |-> 0, inserted |-> FALSE,
     locked |-> FALSE, new_refunded_amount |-> 0, count |-> 0, result |-> Pending]

Init ==
    /\ payments = {}
    /\ refunds = {}
    /\ pay = [c \in PayCalls |-> IdlePay]
    /\ rtx = [r \in RefundCalls |-> IdleRefund]
    /\ holds = {}

\* ------------------------------------------------------------- payments

CARD_NUMBER_REGEX_is_match(card_number) ==
    /\ Len(card_number) = CardDigits
    /\ \A i \in 1..Len(card_number) : card_number[i] \in Digit

\* The three checks with the instrument's taken first.
validate_payment_inputs_CardFirst(amount, card_number) ==
    IF ~CARD_NUMBER_REGEX_is_match(card_number)
    THEN Err("InvalidArgument", "InvalidCardFormat")
    ELSE IF amount < 0 THEN Err("InvalidArgument", "NegativeAmount")
    ELSE IF amount = 0 THEN Err("InvalidArgument", "ZeroAmount")
    ELSE Ok

validate_payment_inputs(amount, card_number) ==
    IF amount < 0 THEN Err("InvalidArgument", "NegativeAmount")
    ELSE IF amount = 0 THEN Err("InvalidArgument", "ZeroAmount")
    ELSE IF ~CARD_NUMBER_REGEX_is_match(card_number)
         THEN Err("InvalidArgument", "InvalidCardFormat")
    ELSE Ok

\* The variant names taken as they are written, without snake_case.
AccountServiceError_from_str_VariantNames(msg) ==
    IF msg \in AccountServiceError THEN msg ELSE "None"

\* strum's EnumString with serialize_all = "snake_case"; "None" stands for
\* the Err(ParseError) of a message that names no variant.
AccountServiceError_from_str(msg) ==
    CASE msg = "insufficient_funds" -> "InsufficientFunds"
      [] msg = "invalid_account_number" -> "InvalidAccountNumber"
      [] msg = "service_unavailable" -> "ServiceUnavailable"
      [] msg = "internal_error" -> "InternalError"
      [] OTHER -> "None"

\* Calls start in slot order: the slots are interchangeable.
Started ==
    Cardinality({c \in PayCalls : pay[c].pc # "idle"})
        + Cardinality({r \in RefundCalls : rtx[r].pc # "idle"})

PayMayStart(c) ==
    /\ pay[c].pc = "idle"
    /\ Started < MaxCalls
    /\ IF c = 1 THEN TRUE ELSE pay[c - 1].pc # "idle"

\* The hold placed before the inputs are validated.
PayValidate_HoldFirst(c) ==
    /\ PayMayStart(c)
    /\ \E input \in PayInputs :
         LET amount == input[1]
             card_number == input[2]
             v == validate_payment_inputs(amount, card_number) IN
         /\ pay' = [pay EXCEPT ![c] =
                    [@ EXCEPT !.amount = amount, !.card_number = card_number,
                              !.calls = Append(@, "place_hold"),
                              !.pc = IF v = Ok THEN "insert" ELSE "done",
                              !.result = IF v = Ok THEN Pending ELSE v]]
         /\ holds' = holds \cup
               {[by |-> c, card_number |-> card_number, amount |-> amount]}
    /\ UNCHANGED <<payments, refunds, rtx>>

\* payments::create, first step: validate_payment_inputs(...)?
PayValidate(c) ==
    /\ PayMayStart(c)
    /\ \E input \in PayInputs :
         LET amount == input[1]
             card_number == input[2]
             v == validate_payment_inputs(amount, card_number) IN
         pay' = [pay EXCEPT ![c] =
                    [@ EXCEPT !.amount = amount, !.card_number = card_number,
                              !.pc = IF v = Ok THEN "hold" ELSE "done",
                              !.result = IF v = Ok THEN Pending ELSE v]]
    /\ UNCHANGED <<payments, refunds, rtx, holds>>

\* hold_account(...) without its `?`: the failure is dropped and create
\* goes on to the INSERT.
hold_account_IgnoresFailure(c) ==
    /\ pay[c].pc = "hold"
    /\ \E response \in HoldResponses :
         /\ holds' = IF response = "ok"
                     THEN holds \cup {[by |-> c, card_number |-> pay[c].card_number,
                                       amount |-> pay[c].amount]}
                     ELSE holds
         /\ pay' = [pay EXCEPT ![c] =
               [@ EXCEPT !.pc = "insert", !.response = response,
                         !.calls = Append(@, "place_hold")]]
    /\ UNCHANGED <<payments, refunds, rtx>>

\* payments::create, second step: hold_account(...)?
hold_account(c) ==
    /\ pay[c].pc = "hold"
    /\ \E response \in HoldResponses :
         IF response = "ok"
         THEN /\ holds' = holds \cup
                    {[by |-> c, card_number |-> pay[c].card_number,
                      amount |-> pay[c].amount]}
              /\ pay' = [pay EXCEPT ![c] =
                    [@ EXCEPT !.pc = "insert", !.response = response,
                              !.calls = Append(@, "place_hold")]]
         ELSE /\ holds' = holds
              /\ pay' = [pay EXCEPT ![c] =
                    [@ EXCEPT !.pc = "done",
                              !.calls = Append(@, "place_hold"),
                              !.response = response,
                              !.result =
                                 LET parsed == AccountServiceError_from_str(response)
                                 IN IF parsed = "None" THEN Panic
                                    ELSE Err("AccountService", parsed)]]
    /\ UNCHANGED <<payments, refunds, rtx>>

CardNumberTaken_NoIndex(card_number) == FALSE

\* The unique index payments_card_number_index.
CardNumberTaken(card_number) == \E p \in payments : p.card_number = card_number

PaymentRow(id, amount, card_number, status) ==
    [id |-> id, amount |-> amount, refunded_amount |-> 0,
     card_number |-> card_number, status |-> status]

\* What sqlx hands back when a statement fails: a database error carries
\* the server's code and constraint, any other error (Io, PoolTimedOut, ...)
\* carries no database error at all.
DatabaseError(code, constraint) ==
    [database |-> TRUE, code |-> code, constraint |-> constraint]

IoError == [database |-> FALSE, code |-> "-", constraint |-> "-"]

\* The map_err closure of payments::create:
\* e.as_database_error().unwrap(), then the match on code and constraint.
insert_map_err(e) ==
    IF ~e.database THEN Panic
    ELSE IF e.code = "23505" /\ e.constraint = "payments_card_number_index"
         THEN Err("DuplicatedCardNumber", "-")
         ELSE Err("Database", e.code)

\* post of bank_web::payments with another status in its call of create.
PostStatus_Processing == "Processing"

\* The status post of bank_web::payments passes to create.
PostStatus == "Approved"

\* Who calls create, and with which status: the POST handler with
\* PostStatus, any other caller of the public function with any status.
\* Neither is read before the INSERT, so both are drawn there.
CreateArgs == {<<"post", PostStatus>>} \cup {<<"direct", status>> : status \in Status}

\* The release_hold of the TODO comment, carried out.
insert_ReleasesHold(c) ==
    /\ pay[c].pc = "insert"
    /\ \E arg \in CreateArgs :
         LET via == arg[1]
             status == arg[2] IN
         IF CardNumberTaken(pay[c].card_number)
         THEN /\ payments' = payments
              /\ holds' = {h \in holds : h.by # c}
              /\ pay' = [pay EXCEPT ![c] =
                    [@ EXCEPT !.pc = "done", !.status = status, !.via = via,
                              !.calls = Append(@, "insert"),
                              !.result = Err("DuplicatedCardNumber", "-")]]
         ELSE /\ payments' = payments \cup
                    {PaymentRow(c, pay[c].amount, pay[c].card_number, status)}
              /\ holds' = holds
              /\ pay' = [pay EXCEPT ![c] =
                    [@ EXCEPT !.pc = "done", !.status = status, !.via = via,
                              !.calls = Append(@, "insert"),
                              !.result = Ok]]
    /\ UNCHANGED <<refunds, rtx>>

\* payments::create, third step: insert(...) and the mapping of its error.
\* status is passed through unread until here, so it is drawn here.
insert(c) ==
    /\ pay[c].pc = "insert"
    /\ \E arg \in CreateArgs :
         LET via == arg[1]
             status == arg[2] IN
         IF CardNumberTaken(pay[c].card_number)
         THEN /\ payments' = payments
              /\ pay' = [pay EXCEPT ![c] =
                    [@ EXCEPT !.pc = "done", !.status = status, !.via = via,
                              !.calls = Append(@, "insert"),
                              !.result = insert_map_err(
                                 DatabaseError("23505", "payments_card_number_index"))]]
         ELSE /\ payments' = payments \cup
                    {PaymentRow(c, pay[c].amount, pay[c].card_number, status)}
              /\ pay' = [pay EXCEPT ![c] =
                    [@ EXCEPT !.pc = "done", !.status = status, !.via = via,
                              !.calls = Append(@, "insert"),
                              !.result = Ok]]
    /\ UNCHANGED <<refunds, rtx, holds>>

\* Failures of the INSERT that the rows do not decide: a violation of
\* another constraint, a server-side error, a lost connection.
StoreFaults ==
    {DatabaseError("23505", "payments_pkey"), DatabaseError("57P01", "-"), IoError}

\* payments::create, third step, when the store fails the statement.
insert_fails(c) ==
    /\ pay[c].pc = "insert"
    /\ \E arg \in CreateArgs, e \in StoreFaults :
         LET via == arg[1]
             status == arg[2] IN
         pay' = [pay EXCEPT ![c] =
                    [@ EXCEPT !.pc = "done", !.status = status, !.via = via,
                              !.calls = Append(@, "insert"),
                              !.result = insert_map_err(e)]]
    /\ UNCHANGED <<payments, refunds, rtx, holds>>

\* ------------------------------------------------------------- refunds

PaymentExists(payment_id) == \E p \in payments : p.id = payment_id

PaymentById(payment_id) == CHOOSE p \in payments : p.id = payment_id

RefundRow(r) == [id |-> r, payment_id |-> rtx[r].payment_id, amount |-> rtx[r].amount]

\* PostgreSQL's integer addition raises "integer out of range" (22003)
\* instead of wrapping.
IntegerOutOfRange(x, y) ==
    IF y >= 0 THEN x > I32Max - y ELSE x < I32Min - y

\* WHERE status = 'Approved' AND refunded_amount + $1 <= amount
\* (the row is the one with id = $2)
UpdateMatches_NoLimit(row, amount) == row.status = "Approved"

UpdateMatches_NoStatus(row, amount) ==
    row.refunded_amount + amount <= row.amount

UpdateMatches(row, amount) ==
    /\ row.status = "Approved"
    /\ row.refunded_amount + amount <= row.amount

\* What the UPDATE statement can do with the row: update it, skip it, or
\* fail on the addition.  PostgreSQL does not fix the order in which the
\* conjuncts of WHERE are evaluated, so on a row that is not Approved the
\* overflowing addition may or may not be evaluated.
UpdateOutcomes(row, amount) ==
    IF IntegerOutOfRange(row.refunded_amount, amount)
    THEN IF row.status = "Approved" THEN {"error"} ELSE {"error", "nomatch"}
    ELSE IF UpdateMatches(row, amount) THEN {"match"} ELSE {"nomatch"}

\* The row lock an UPDATE takes (FOR NO KEY UPDATE) is held until the
\* transaction ends.  The foreign-key check of the refund insert takes
\* FOR KEY SHARE on the payment row, which does not conflict with it.
RowLockFree_NoLock(payment_id, r) == TRUE

\* The foreign-key check taken as a lock that conflicts with the UPDATE's.
RowLockFree_KeyShareConflicts(payment_id, r) ==
    \A o \in RefundCalls \ {r} :
        ~((rtx[o].locked \/ rtx[o].inserted) /\ rtx[o].payment_id = payment_id)

RowLockFree(payment_id, r) ==
    \A o \in RefundCalls \ {r} : ~(rtx[o].locked /\ rtx[o].payment_id = payment_id)

\* Calls start in slot order: the slots are interchangeable.
RefundMayStart(r) ==
    /\ rtx[r].pc = "idle"
    /\ Started < MaxCalls
    /\ IF r = 1 THEN TRUE ELSE rtx[r - 1].pc # "idle"

\* The INSERT run on the pool instead of on the transaction: committed at once.
RefundInsert_Autocommit(r) ==
    /\ RefundMayStart(r)
    /\ \E payment_id \in {p.id : p \in payments} \cup {NoSuchId},
          amount \in RefundAmounts :
         IF PaymentExists(payment_id)
         THEN /\ rtx' = [rtx EXCEPT ![r] =
                   [@ EXCEPT !.pc = "update", !.payment_id = payment_id,
                             !.amount = amount, !.inserted = TRUE]]
              /\ refunds' = refunds \cup
                   {[id |-> r, payment_id |-> payment_id, amount |-> amount]}
         ELSE /\ rtx' = [rtx EXCEPT ![r] =
                   [@ EXCEPT !.pc = "rollback", !.payment_id = payment_id,
                             !.amount = amount,
                             !.result = Err("PaymentNotFound", "-")]]
              /\ refunds' = refunds
    /\ UNCHANGED <<payments, pay, holds>>

\* refunds::create, lines 32-55: pool.begin() and INSERT INTO refunds.
\* The foreign key refunds_payment_id_fkey rejects a payment_id that has no row.
RefundInsert(r) ==
    /\ RefundMayStart(r)
    /\ \E payment_id \in {p.id : p \in payments} \cup {NoSuchId},
          amount \in RefundAmounts :
         IF PaymentExists(payment_id)
         THEN rtx' = [rtx EXCEPT ![r] =
                 [@ EXCEPT !.pc = "update", !.payment_id = payment_id,
                           !.amount = amount, !.inserted = TRUE]]
         ELSE rtx' = [rtx EXCEPT ![r] =
                 [@ EXCEPT !.pc = "rollback", !.payment_id = payment_id,
                           !.amount = amount,
                           !.result = Err("PaymentNotFound", "-")]]
    /\ UNCHANGED <<payments, refunds, pay, holds>>

\* refunds::create, lines 57-74: UPDATE payments and the rows_affected test.
\* A matching row that another transaction has updated and not yet committed
\* makes the statement wait; it then sees the row as committed.
RefundUpdate(r) ==
    /\ rtx[r].pc = "update"
    /\ LET row == PaymentById(rtx[r].payment_id) IN
       \E outcome \in UpdateOutcomes(row, rtx[r].amount) :
         CASE outcome = "match" ->
                /\ RowLockFree(rtx[r].payment_id, r)
                /\ rtx' = [rtx EXCEPT ![r] =
                      [@ EXCEPT !.pc = "commit", !.locked = TRUE, !.count = 1,
                                !.new_refunded_amount =
                                    row.refunded_amount + rtx[r].amount]]
           [] outcome = "nomatch" ->
                rtx' = [rtx EXCEPT ![r] =
                      [@ EXCEPT !.pc = "rollback", !.count = 0,
                                !.result = Err("ExcessiveAmount", "-")]]
           [] outcome = "error" ->
                rtx' = [rtx EXCEPT ![r] =
                      [@ EXCEPT !.pc = "rollback",
                                !.result = Err("Database", "22003")]]
    /\ UNCHANGED <<payments, refunds, pay, holds>>

\* The commit of the refund row alone, the UPDATE's increment left out.
RefundCommit_NoIncrement(r) ==
    /\ rtx[r].pc = "commit"
    /\ refunds' = refunds \cup {RefundRow(r)}
    /\ rtx' = [rtx EXCEPT ![r] =
          [@ EXCEPT !.pc = "done", !.inserted = FALSE, !.locked = FALSE,
                    !.result = Ok]]
    /\ UNCHANGED <<payments, pay, holds>>

\* The UPDATE without its WHERE id = $2.
RefundCommit_AllRows(r) ==
    /\ rtx[r].pc = "commit"
    /\ refunds' = refunds \cup {RefundRow(r)}
    /\ payments' =
         {[p EXCEPT !.refunded_amount = p.refunded_amount + rtx[r].amount] :
            p \in payments}
    /\ rtx' = [rtx EXCEPT ![r] =
          [@ EXCEPT !.pc = "done", !.inserted = FALSE, !.locked = FALSE,
                    !.result = Ok]]
    /\ UNCHANGED <<pay, holds>>

\* refunds::create, lines 76-78: transaction.commit() and Ok(refund).
RefundCommit(r) ==
    /\ rtx[r].pc = "commit"
    /\ refunds' = refunds \cup {RefundRow(r)}
    /\ payments' =
         {IF p.id = rtx[r].payment_id
          THEN [p EXCEPT !.refunded_amount = rtx[r].new_refunded_amount]
          ELSE p : p \in payments}
    /\ rtx' = [rtx EXCEPT ![r] =
          [@ EXCEPT !.pc = "done", !.inserted = FALSE, !.locked = FALSE,
                    !.result = Ok]]
    /\ UNCHANGED <<pay, holds>>

\* The transaction is dropped on every `?` and `return Err`: sqlx rolls it back.
RefundRollback(r) ==
    /\ rtx[r].pc = "rollback"
    /\ rtx' = [rtx EXCEPT ![r] =
          [@ EXCEPT !.pc = "done", !.inserted = FALSE, !.locked = FALSE]]
    /\ UNCHANGED <<payments, refunds, pay, holds>>

Next ==
    \/ \E c \in PayCalls : PayValidate(c)
    \/ \E c \in PayCalls : hold_account(c)
    \/ \E c \in PayCalls : insert(c)
    \/ \E r \in RefundCalls : RefundInsert(r)
    \/ \E r \in RefundCalls : RefundUpdate(r)
    \/ \E r \in RefundCalls : RefundCommit(r)
    \/ \E r \in RefundCalls : RefundRollback(r)

Spec == Init /\ [][Next]_vars

\* The runtime polls every spawned task and the store serves every
\* connection: a step of a refund transaction that stays possible is taken.
SpecFair ==
    /\ Spec
    /\ \A r \in RefundCalls : /\ WF_vars(RefundUpdate(r))
                                /\ WF_vars(RefundCommit(r))
                                /\ WF_vars(RefundRollback(r))

\* The same program over a store that may also fail a payment INSERT.
NextFaults ==
    \/ Next
    \/ \E c \in PayCalls : insert_fails(c)

SpecFaults == Init /\ [][NextFaults]_vars

\* ------------------------------------------------------------- bank_web

BAD_REQUEST == 400

NO_CONTENT == 204

UNPROCESSABLE_ENTITY == 422

PAYMENT_REQUIRED == 402

FORBIDDEN == 403

SERVICE_UNAVAILABLE == 503

INTERNAL_SERVER_ERROR == 500

CREATED == 201

NOT_FOUND == 404

\* http::StatusCode::is_server_error: 5xx
is_server_error(status_code) == status_code >= 500 /\ status_code < 600

\* The match of status_from_error has arms for InvalidArgument, AccountService
\* and Database only: CreateError::DuplicatedCardNumber has none.
NoArm == <<0, "-">>

HasArm(e) == e.variant \in {"InvalidArgument", "AccountService", "Database"}

status_from_error(e) ==
    IF ~HasArm(e) THEN NoArm
    ELSE LET status_code ==
               CASE e.variant = "InvalidArgument" ->
                      (CASE e.err = "NegativeAmount" -> BAD_REQUEST
                         [] e.err = "ZeroAmount" -> NO_CONTENT
                         [] e.err = "InvalidCardFormat" -> UNPROCESSABLE_ENTITY)
                 [] e.variant = "AccountService" ->
                      (CASE e.err = "InsufficientFunds" -> PAYMENT_REQUIRED
                         [] e.err = "InvalidAccountNumber" -> FORBIDDEN
                         [] e.err = "ServiceUnavailable" -> SERVICE_UNAVAILABLE
                         [] e.err = "InternalError" -> INTERNAL_SERVER_ERROR)
                 [] e.variant = "Database" -> UNPROCESSABLE_ENTITY
         IN <<status_code,
              IF is_server_error(status_code) THEN "Failed" ELSE "Declined">>

\* The create calls of post of bank_web::payments; a call that ended before
\* its caller was drawn may be one of them.
ViaPost(c) == pay[c].via \in {"-", "post"}

\* post of bank_web::payments, as the answer to a create that has returned:
\* the created payment on Ok, the request's own fields with Uuid::nil() and
\* the pair of status_from_error on Err; a panic of create ends the handler
\* without an answer.
payments_post(c) ==
    CASE pay[c].result = Ok ->
           [status_code |-> CREATED, id |-> c, amount |-> pay[c].amount,
            card_number |-> pay[c].card_number, status |-> pay[c].status]
      [] pay[c].result.tag = "Err" ->
           LET mapped == status_from_error(pay[c].result) IN
           [status_code |-> mapped[1], id |-> NoSuchId, amount |-> pay[c].amount,
            card_number |-> pay[c].card_number, status |-> mapped[2]]
      [] OTHER -> Panic

\* post of bank_web::refunds, as the answer to a refund creation that has
\* returned. The handler unwraps the result and answers CREATED with the
\* refund's id; it has no other answer, so an Err ends it in a panic. The
\* creation it calls is taken to be refunds::create, the only one of
\* bank::refunds.
refunds_post(r) ==
    IF rtx[r].result = Ok
    THEN [status_code |-> CREATED, id |-> r, amount |-> rtx[r].amount,
          payment_id |-> rtx[r].payment_id]
    ELSE Panic

\* ------------------------------------------------------------- properties

RECURSIVE SumAmounts(_)
SumAmounts(rows) ==
    IF rows = {} THEN 0
    ELSE LET f == CHOOSE f \in rows : TRUE IN f.amount + SumAmounts(rows \ {f})

\* The committed refund rows of one payment.
RefundsOf(payment_id) == {f \in refunds : f.payment_id = payment_id}

\* The refunds::create calls made so far against one payment.
CallsOn(payment_id) ==
    {r \in RefundCalls : rtx[r].pc # "idle" /\ rtx[r].payment_id = payment_id}

Failed(r, variant) ==
    rtx[r].result.tag = "Err" /\ rtx[r].result.variant = variant

\* C1: whatever the interleaving of concurrent refund transactions, the
\* amounts of a payment's committed refunds sum to at most the payment's
\* amount, and its refunded_amount is at most its amount.
C1_NeverOverRefunded ==
    \A p \in payments :
        /\ SumAmounts(RefundsOf(p.id)) <= p.amount
        /\ p.refunded_amount <= p.amount

\* Two transactions in flight on the same payment, one with its update
\* applied and not committed, the other with its refund row inserted, whose
\* amounts fit one by one and not together.
C1_Witness ==
    \E p \in payments : \E r1, r2 \in CallsOn(p.id) :
        /\ r1 # r2
        /\ rtx[r1].pc = "commit"
        /\ rtx[r2].pc = "update"
        /\ rtx[r1].amount <= p.amount
        /\ rtx[r2].amount <= p.amount
        /\ rtx[r1].amount + rtx[r2].amount > p.amount

\* C2: every payment has 0 <= refunded_amount <= amount in every state
\* reachable by payments::create and refunds::create calls with any integer
\* arguments.
C2_RefundedWithinBounds ==
    \A p \in payments : 0 <= p.refunded_amount /\ p.refunded_amount <= p.amount

\* The sum of the refunds that calls other than r1 and r2 committed on a payment.
OthersRefunded(payment_id, r1, r2) ==
    SumAmounts({f \in RefundsOf(payment_id) : f.id \notin {r1, r2}})

\* Two finished calls on one Approved payment whose (positive) amounts fit
\* the balance left by the other calls one by one and not together, all
\* calls on the payment being finished and for positive amounts.
C3_Case(p, r1, r2) ==
    /\ r1 # r2
    /\ p.status = "Approved"
    /\ \A r \in CallsOn(p.id) : rtx[r].pc = "done" /\ rtx[r].amount > 0
    /\ rtx[r1].amount <= p.amount
    /\ rtx[r2].amount <= p.amount
    /\ LET before == OthersRefunded(p.id, r1, r2) IN
       /\ before + rtx[r1].amount <= p.amount
       /\ before + rtx[r2].amount <= p.amount
       /\ before + rtx[r1].amount + rtx[r2].amount > p.amount

\* C3: of two concurrent refunds on one Approved payment, each fitting the
\* remaining balance alone and not both together, in every interleaving
\* exactly one succeeds, the other fails with ExcessiveAmount, and the final
\* refunded_amount is the previous value plus the winner's amount.
C3_ExactlyOneWins ==
    \A p \in payments : \A r1, r2 \in CallsOn(p.id) :
        C3_Case(p, r1, r2) =>
            \E w \in {r1, r2} :
                /\ rtx[w].result = Ok
                /\ \A l \in {r1, r2} \ {w} : Failed(l, "ExcessiveAmount")
                /\ p.refunded_amount =
                       OthersRefunded(p.id, r1, r2) + rtx[w].amount

C3_Witness ==
    \E p \in payments : \E r1, r2 \in CallsOn(p.id) :
        /\ C3_Case(p, r1, r2)
        /\ rtx[r1].result = Ok
        /\ Failed(r2, "ExcessiveAmount")
        /\ p.refunded_amount = rtx[r1].amount

\* refunded_amount + a <= amount, in the integers
Fits(row, amount) == amount <= row.amount - row.refunded_amount

\* C4: a refunds::create call on an Approved payment succeeds if and only if
\* refunded_amount + a <= amount when the store serializes its conditional
\* update; on success refunded_amount grows by exactly a, otherwise the call
\* fails with ExcessiveAmount.
C4_SucceedsIffFits ==
    [][\A r \in RefundCalls :
          LET id == rtx[r].payment_id IN
          /\ (rtx[r].pc = "update" /\ rtx'[r].pc # "update"
                /\ PaymentById(id).status = "Approved") =>
                IF Fits(PaymentById(id), rtx[r].amount)
                THEN rtx'[r].pc = "commit"
                ELSE rtx'[r].result = Err("ExcessiveAmount", "-")
          /\ (rtx[r].pc = "commit" /\ rtx'[r].pc = "done") =>
                /\ rtx'[r].result = Ok
                /\ \E q \in payments' :
                     /\ q.id = id
                     /\ q.refunded_amount =
                            PaymentById(id).refunded_amount + rtx[r].amount
      ]_vars

\* C5: a refunds::create call that fails leaves no refund row of its own in
\* the committed store and does not change any payment: only the step that
\* commits a successful call changes the committed rows, and a failure is final.
C5_FailureRollsBack ==
    [][\A r \in RefundCalls :
          /\ rtx'[r].result.tag = "Err" =>
                /\ \A f \in refunds' : f.id # r
                /\ rtx[r].result.tag = "Err" => rtx'[r].result = rtx[r].result
                /\ rtx[r].result = Ok => FALSE
          /\ (rtx'[r] # rtx[r] /\ rtx'[r].result # Ok) =>
                /\ payments' = payments
                /\ refunds' = refunds
      ]_vars

\* A call that inserted its refund row, failed the conditional update of an
\* Approved payment and was rolled back.
C5_Witness ==
    \E r \in RefundCalls :
        /\ rtx[r].pc = "done"
        /\ Failed(r, "ExcessiveAmount")
        /\ \E p \in payments : p.id = rtx[r].payment_id /\ p.status = "Approved"
        /\ \A f \in refunds : f.id # r

\* A refunds::create call that has returned (its transaction may still be
\* waiting for its rollback).
Returned(r) == rtx[r].result # Pending

\* C6: refunds::create on a payment id that has no row and refunds::create on
\* an existing payment whose status is Declined, Failed or Processing fail
\* with the same kind, PaymentNotFound.
C6_UnifiedNotFound ==
    \A r \in RefundCalls :
        (/\ Returned(r)
         /\ \A p \in payments : p.id = rtx[r].payment_id => p.status # "Approved")
            => Failed(r, "PaymentNotFound")

\* C7: every committed refund row references an existing payment whose
\* status is Approved.
C7_RefundsOnlyOnApproved ==
    \A f \in refunds :
        \E p \in payments : p.id = f.payment_id /\ p.status = "Approved"

\* A refund was attempted on an existing payment that is not Approved, and
\* the call has run to its end.
C7_Witness ==
    \E r \in RefundCalls : \E p \in payments :
        /\ rtx[r].pc = "done"
        /\ p.id = rtx[r].payment_id
        /\ p.status # "Approved"
        /\ \A f \in refunds : f.payment_id # p.id

\* The payments::create calls that reached the insert with this card number
\* and have returned.
Inserters(card_number) ==
    {c \in PayCalls : /\ pay[c].pc = "done"
                      /\ pay[c].card_number = card_number
                      /\ Len(pay[c].calls) = 2}

\* C8: of the payments::create calls with the same valid instrument and a
\* successful hold, in whatever order or interleaving, exactly one succeeds and
\* persists its row and every other one fails with DuplicatedCardNumber; no two
\* payment rows ever have the same instrument.
C8_OneRowPerInstrument ==
    /\ \A p, q \in payments : p.card_number = q.card_number => p = q
    /\ \A c \in PayCalls :
          Inserters(pay[c].card_number) # {} =>
             \E w \in Inserters(pay[c].card_number) :
                /\ pay[w].result = Ok
                /\ \E p \in payments :
                      p.id = w /\ p.card_number = pay[w].card_number
                /\ \A l \in Inserters(pay[c].card_number) \ {w} :
                      /\ pay[l].result = Err("DuplicatedCardNumber", "-")
                      /\ \A p \in payments : p.id # l

\* Two calls with the same instrument have both returned from the insert.
C8_Witness ==
    \E c, d \in PayCalls :
        /\ c # d
        /\ d \in Inserters(pay[c].card_number)
        /\ c \in Inserters(pay[c].card_number)
        /\ pay[c].result = Ok
        /\ pay[d].result = Err("DuplicatedCardNumber", "-")

InvalidInputs(c) ==
    pay[c].amount <= 0 \/ ~CARD_NUMBER_REGEX_is_match(pay[c].card_number)

\* C9: a payments::create call whose amount is <= 0 or whose instrument does
\* not match the 15-digit pattern fails with an InvalidArgument error without
\* place_hold being invoked and without any access to the store.
C9_ValidationFirst ==
    \A c \in PayCalls :
        (pay[c].pc # "idle" /\ InvalidInputs(c)) =>
            /\ pay[c].pc = "done"
            /\ pay[c].result.tag = "Err"
            /\ pay[c].result.variant = "InvalidArgument"
            /\ pay[c].calls = <<>>
            /\ \A h \in holds : h.by # c
            /\ \A p \in payments : p.id # c

\* Calls have failed validation for the amount and for the instrument.
C9_Witness ==
    \E c, d \in PayCalls :
        /\ pay[c].pc = "done" /\ pay[c].amount <= 0
        /\ pay[d].pc = "done" /\ pay[d].amount > 0 /\ InvalidInputs(d)

\* The table of the status mapping: failure kind -> (caller status, ledger status).
StatusTable(e) ==
    CASE e.err = "NegativeAmount" -> <<BAD_REQUEST, "Declined">>
      [] e.err = "ZeroAmount" -> <<NO_CONTENT, "Declined">>
      [] e.err = "InvalidCardFormat" -> <<UNPROCESSABLE_ENTITY, "Declined">>
      [] e.variant = "DuplicatedCardNumber" -> <<UNPROCESSABLE_ENTITY, "Declined">>
      [] e.err = "InsufficientFunds" -> <<PAYMENT_REQUIRED, "Declined">>
      [] e.err = "InvalidAccountNumber" -> <<FORBIDDEN, "Declined">>
      [] e.err = "ServiceUnavailable" -> <<SERVICE_UNAVAILABLE, "Failed">>
      [] e.err = "InternalError" -> <<INTERNAL_SERVER_ERROR, "Failed">>

\* C10: status_from_error gives every payment-creation failure kind the pair
\* of the table, and the ledger status is Failed exactly when the caller
\* status is a server error (5xx), Declined otherwise.
C10_StatusTable ==
    \A c \in PayCalls :
        pay[c].result.tag = "Err" =>
            LET mapped == status_from_error(pay[c].result) IN
            /\ mapped = StatusTable(pay[c].result)
            /\ mapped[2] = IF is_server_error(mapped[1]) THEN "Failed" ELSE "Declined"

\* C11: the refund POST handler answers every request: 201 with a non-nil
\* refund id when the refund was created, 404 with a nil id when the payment
\* is missing, 422 with a nil id when the amount is excessive; so the id is
\* non-nil exactly when the status is a success.
C11_RefundPostAnswers ==
    \A r \in RefundCalls :
        rtx[r].pc = "done" =>
            LET response == refunds_post(r) IN
            /\ response # Panic
            /\ rtx[r].result = Ok =>
                  response.status_code = CREATED /\ response.id # NoSuchId
            /\ Failed(r, "PaymentNotFound") =>
                  response.status_code = NOT_FOUND /\ response.id = NoSuchId
            /\ Failed(r, "ExcessiveAmount") =>
                  response.status_code = UNPROCESSABLE_ENTITY /\ response.id = NoSuchId

\* The payments::create calls whose INSERT was issued and did not succeed.
InsertFailed(c) ==
    pay[c].pc = "done" /\ pay[c].calls = <<"place_hold", "insert">> /\ pay[c].result # Ok

\* C12: every failure of the payment INSERT comes back from payments::create
\* as an error value, DuplicatedCardNumber for the violation of the
\* instrument's unique index and Database for every other store failure,
\* a lost connection included; create never panics.
C12_InsertFailureIsAValue ==
    \A c \in PayCalls :
        /\ pay[c].result # Panic
        /\ InsertFailed(c) =>
              /\ pay[c].result.tag = "Err"
              /\ pay[c].result.variant \in {"DuplicatedCardNumber", "Database"}

\* C13: a store failure that create could not classify, CreateError::Database,
\* is surfaced as a server-side failure, so with the ledger status Failed.
C13_DatabaseIsServerSide ==
    \A c \in PayCalls :
        (pay[c].result.tag = "Err" /\ pay[c].result.variant = "Database") =>
            LET mapped == status_from_error(pay[c].result) IN
            is_server_error(mapped[1]) /\ mapped[2] = "Failed"

\* The kind of failure a message of the account service reports.
ReportedKind(msg) ==
    CASE msg = "insufficient_funds" -> "InsufficientFunds"
      [] msg = "invalid_account_number" -> "InvalidAccountNumber"
      [] msg = "service_unavailable" -> "ServiceUnavailable"
      [] msg = "internal_error" -> "InternalError"
      [] OTHER -> "unknown"

\* C14: every failure of place_hold makes create return an AccountService
\* error of exactly one of the four kinds, the kind the account service
\* reported; such a failure has no other outcome.
C14_HoldFailurePassedThrough ==
    \A c \in PayCalls :
        pay[c].response \notin {"-", "ok"} =>
            /\ pay[c].pc = "done"
            /\ pay[c].calls = <<"place_hold">>
            /\ pay[c].result.tag = "Err"
            /\ pay[c].result.variant = "AccountService"
            /\ pay[c].result.err \in AccountServiceError
            /\ pay[c].result.err = ReportedKind(pay[c].response)

C14_Witness ==
    \E c, d \in PayCalls :
        /\ pay[c].response = "service_unavailable"
        /\ pay[c].result = Err("AccountService", "ServiceUnavailable")
        /\ pay[d].response = "insufficient_funds"
        /\ pay[d].result = Err("AccountService", "InsufficientFunds")

\* The hold of a create whose INSERT failed is outstanding and no payment
\* row answers to it.
Leaked(c) ==
    /\ InsertFailed(c)
    /\ \E h \in holds : /\ h.by = c
                        /\ h.card_number = pay[c].card_number
                        /\ h.amount = pay[c].amount
    /\ ~PaymentExists(c)

\* C15: when the payment INSERT fails after place_hold succeeded (so for
\* the loser of two creates with one instrument) release_hold is never
\* invoked: the hold is outstanding without a payment row from the failure
\* on, in every later state.
C15_HoldLeaks ==
    [][\A c \in PayCalls : /\ InsertFailed(c)' => Leaked(c)'
                           /\ Leaked(c) => Leaked(c)']_vars

C15_Witness ==
    \E c, d \in PayCalls :
        /\ Leaked(c)
        /\ pay[c].result = Err("DuplicatedCardNumber", "-")
        /\ pay[d].result = Ok
        /\ pay[d].card_number = pay[c].card_number
        /\ \E r \in RefundCalls : rtx[r].pc = "done"

\* C16: once a payment row exists no step changes its amount, instrument
\* or status or deletes it; its refunded_amount changes only in the step
\* that commits a refunds::create on that very payment; a committed refund
\* row is never changed or deleted.
C16_RowsAreFramed ==
    [][/\ \A p \in payments : \E q \in payments' :
            /\ q.id = p.id
            /\ q.amount = p.amount
            /\ q.card_number = p.card_number
            /\ q.status = p.status
            /\ q.refunded_amount # p.refunded_amount =>
                  \E r \in RefundCalls :
                      /\ rtx[r].pc = "commit" /\ rtx[r].payment_id = p.id
                      /\ rtx'[r].pc = "done" /\ rtx'[r].result = Ok
                      /\ RefundRow(r) \in refunds' \ refunds
       /\ \A p, q \in payments' : p.id = q.id => p = q
       /\ refunds \subseteq refunds']_vars

C16_Witness ==
    \E p, q \in payments :
        /\ p.id # q.id
        /\ p.refunded_amount = 200 /\ q.refunded_amount = 0
        /\ \E f \in refunds : f.payment_id = p.id /\ f.amount = 200

\* What C17 asks of the answer to one returned create of the POST handler.
PaymentPostAnswers(c) ==
    LET response == payments_post(c) IN
    /\ response # Panic
    /\ pay[c].result = Ok =>
          /\ response.status_code = CREATED
          /\ response.id # NoSuchId
          /\ \E p \in payments : /\ p.id = response.id
                                  /\ p.amount = response.amount
                                  /\ p.card_number = response.card_number
                                  /\ p.status = response.status
          /\ response.status = "Approved"
    /\ pay[c].result.tag = "Err" =>
          /\ HasArm(pay[c].result)
          /\ response.status_code = status_from_error(pay[c].result)[1]
          /\ response.status = status_from_error(pay[c].result)[2]
          /\ response.amount = pay[c].amount
          /\ response.card_number = pay[c].card_number
          /\ response.id = NoSuchId
    /\ response.id = NoSuchId <=> response.status_code # CREATED

\* C17: the payment POST handler answers a success with 201, the persisted
\* payment's non-nil id and status Approved, and every failure with the
\* mapped error status, the request's own amount and instrument, the mapped
\* ledger status and the nil id; the id is nil exactly when the status is
\* not 201.
C17_PaymentPostAnswers ==
    \A c \in PayCalls : (pay[c].pc = "done" /\ ViaPost(c)) => PaymentPostAnswers(c)

\* C18: every refund row committed by refunds::create has a strictly
\* positive amount.
C18_RefundAmountPositive == \A f \in refunds : f.amount > 0

\* An instrument of exactly 15 characters, each a decimal digit.
ExactlyFifteenDigits(card_number) ==
    /\ Len(card_number) = 15
    /\ \A i \in DOMAIN card_number : card_number[i] \in Digit

Invalid(c, err) == pay[c].result = Err("InvalidArgument", err)

\* C19: validation checks the amount first: a negative amount gives
\* NegativeAmount and a zero amount ZeroAmount whatever the instrument;
\* InvalidCardFormat is given only for a positive amount with an instrument
\* that is not exactly 15 digits; validation passes exactly for a positive
\* amount with an instrument of exactly 15 digits.
C19_ValidationPrecedence ==
    \A c \in PayCalls :
        pay[c].pc # "idle" =>
            /\ pay[c].amount < 0 => Invalid(c, "NegativeAmount")
            /\ pay[c].amount = 0 => Invalid(c, "ZeroAmount")
            /\ Invalid(c, "InvalidCardFormat") <=>
                  (pay[c].amount > 0 /\ ~ExactlyFifteenDigits(pay[c].card_number))
            /\ pay[c].result.variant # "InvalidArgument" <=>
                  (pay[c].amount > 0 /\ ExactlyFifteenDigits(pay[c].card_number))

C19_Witness ==
    \E c, d \in PayCalls :
        /\ pay[c].amount < 0 /\ ~ExactlyFifteenDigits(pay[c].card_number)
        /\ Invalid(c, "NegativeAmount")
        /\ pay[d].amount > 0 /\ Len(pay[d].card_number) = 15
        /\ Invalid(d, "InvalidCardFormat")

\* The failures of create that come before its INSERT.
FailedBeforeInsert(c) ==
    pay[c].result.tag = "Err" /\ pay[c].result.variant \in {"InvalidArgument", "AccountService"}

\* C20: payments::create inserts a row only after place_hold succeeded: a
\* create that fails with an InvalidArgument or AccountService error has
\* changed neither the payments nor the refunds in any of its steps and has
\* no row, and every row a create persists is preceded by a successful hold
\* of that create for the row's instrument and amount.
C20_InsertOnlyAfterHold ==
    [][/\ \A c \in PayCalls :
            (pay'[c] # pay[c] /\ (payments' # payments \/ refunds' # refunds)) =>
                pay'[c].result = Ok
       /\ \A c \in PayCalls :
            FailedBeforeInsert(c)' =>
                /\ ~PaymentExists(c)'
                /\ pay'[c].calls \in {<<>>, <<"place_hold">>}
       /\ \A p \in {q \in payments' : ~PaymentExists(q.id)} :
            /\ pay[p.id].calls = <<"place_hold">>
            /\ pay[p.id].response = "ok"
            /\ \E h \in holds : /\ h.by = p.id
                                /\ h.card_number = p.card_number
                                /\ h.amount = p.amount]_vars

C20_Witness ==
    \E c, d \in PayCalls :
        /\ FailedBeforeInsert(c) /\ pay[c].result.variant = "AccountService"
        /\ ~PaymentExists(c)
        /\ pay[d].result = Ok /\ PaymentExists(d)
        /\ \E h \in holds : h.by = d

\* C21: in every committed state the refunded_amount of each payment is the
\* sum of the amounts of the committed refund rows that reference it: the
\* refund row and the increment become visible together or not at all, in
\* every interleaving of refunds::create calls.
C21_RefundedIsSumOfRefunds ==
    \A p \in payments : p.refunded_amount = SumAmounts(RefundsOf(p.id))

C21_Witness ==
    \E p \in payments :
        /\ Cardinality(RefundsOf(p.id)) = 2
        /\ p.refunded_amount = SumAmounts(RefundsOf(p.id))
        /\ p.refunded_amount > 0

\* A refund transaction waits in its UPDATE for the row lock of another.
Waits(r) ==
    /\ rtx[r].pc = "update"
    /\ "match" \in UpdateOutcomes(PaymentById(rtx[r].payment_id), rtx[r].amount)
    /\ ~RowLockFree(rtx[r].payment_id, r)

\* The transaction has not begun, or has ended with a commit (Ok) or a
\* rollback (Err).
Ended(r) ==
    \/ rtx[r].pc = "idle"
    \/ rtx[r].pc = "done" /\ rtx[r].result.tag \in {"Ok", "Err"}

\* C22: under fair scheduling every refunds::create transaction that has
\* begun ends with a commit or a rollback, however many refund transactions
\* run on the same or on different payments; the locks of the refund insert
\* and of the conditional UPDATE never leave transactions waiting for each
\* other.
\* A transaction never leaves "done" and never returns to "idle", so that
\* every begun transaction ends is that from some state on none is under way.
C22_RefundsTerminate == <>[](\A r \in RefundCalls : Ended(r))

C22_Witness ==
    \E r, o \in RefundCalls :
        /\ Waits(r)
        /\ rtx[o].pc = "commit" /\ rtx[o].locked
        /\ rtx[o].payment_id = rtx[r].payment_id
        /\ rtx[r].inserted /\ rtx[o].inserted

\* C23: every payment row persisted through the payment POST handler has
\* status Approved; Declined and Failed appear only in the handler's error
\* answers, which carry the nil id and have no row; so every id the handler
\* hands out for a refund request is that of an Approved row.
C23_PostPersistsApprovedOnly ==
    \A c \in PayCalls :
        (pay[c].pc = "done" /\ ViaPost(c)) =>
            LET response == payments_post(c) IN
            /\ PaymentExists(c) => PaymentById(c).status = "Approved"
            /\ response # Panic =>
                  /\ response.status \in {"Declined", "Failed"} =>
                        (response.id = NoSuchId /\ ~PaymentExists(c))
                  /\ response.id # NoSuchId =>
                        /\ PaymentExists(response.id)
                        /\ PaymentById(response.id).status = "Approved"

C23_Witness ==
    \E c, d \in PayCalls :
        /\ pay[c].via = "post" /\ pay[c].result = Ok
        /\ PaymentExists(c) /\ PaymentById(c).status = "Approved"
        /\ payments_post(c).id = c
        /\ pay[d].pc = "done" /\ ViaPost(d) /\ pay[d].result.tag = "Err"
        /\ payments_post(d).status = "Declined" /\ payments_post(d).id = NoSuchId
        /\ \E f \in refunds : f.payment_id = c

====
